---- MODULE Spec2Model ----
(***************************************************************************)
(* A model of httpfs.py: the read-only HTTP filesystem HttpFs (getattr,    *)
(* read, get_block, cleanup, init, destroy) and the LRUCache class.        *)
(*                                                                         *)
(* Byte strings are sequences of integers; a path or url is a string.      *)
(* Every call of a FUSE handler runs on a thread of Threads and is cut     *)
(* into steps at the places where it blocks on the network or touches      *)
(* the shared state (self.files, self.disk_cache, the counters).           *)
(***************************************************************************)
EXTENDS Integers, Sequences, FiniteSets

(***************************************************************************)
(* Program constants, scaled down.                                         *)
(***************************************************************************)
\* BLOCK_SIZE = 2 ** 18
BLOCK_SIZE == 2
\* CLEANUP_INTERVAL = 60
CLEANUP_INTERVAL == 2
\* CLEANUP_EXPIRED = 60
CLEANUP_EXPIRED == 2
\* size_limit = 2**30, the byte limit handed to diskcache.Cache
size_limit == 4
\* LRUCache(capacity=400)
capacity == 2

(***************************************************************************)
(* Bounds of the model.                                                    *)
(***************************************************************************)
\* the clock stops at MaxTime
MaxTime == 2
\* read(path, size, offset) is called with offset + size <= MaxEnd
MaxEnd == 3
\* self.lru_hits and self.lru_misses count up to MaxCount
MaxCount == 2
\* the log of the calls made on the LRUCache holds MaxLog calls
MaxLog == 4
\* threads of the FUSE dispatcher
NumThreads == 2

Threads == 1..NumThreads

Min(a, b) == IF a < b THEN a ELSE b

(***************************************************************************)
(* Paths, urls and the origin.                                             *)
(***************************************************************************)
Paths == {"/a..", "/b..", "/d"}

\* path.endswith('..')
EndsWithDotDot(path) == path \in {"/a..", "/b.."}

\* '{}:/{}'.format(self.schema, path[:-2]) with schema "http"
Url(path) ==
    CASE path = "/a.." -> "http://a"
      [] path = "/b.." -> "http://b"
      [] OTHER -> "http:/"

\* The origin's resources: byte i (from 0) of a resource is nonzero and
\* differs from every other byte of the origin.
OriginSize(url) ==
    CASE url = "http://a" -> 3
      [] url = "http://b" -> 2
      [] OTHER -> 0

OriginByte(url, i) ==
    (IF url = "http://a" THEN 10 ELSE 20) + i + 1

\* The origin's bytes [from, to) of a resource, clipped to its size.
OriginRange(url, from, to) ==
    LET hi == Min(to, OriginSize(url))
    IN  IF hi <= from THEN << >>
        ELSE [i \in 1..(hi - from) |-> OriginByte(url, from + i - 1)]

(***************************************************************************)
(* The origin's answers.  A response to requests.head is a record          *)
(* [raised, status, has_length, length]; a response to requests.get is     *)
(* [raised, status, body].  raised: requests raised ConnectionError.       *)
(***************************************************************************)
\* the body of an error page
ErrorBody == << 99 >>

\* HEAD of an existing resource
HeadOk(url) ==
    [raised |-> FALSE, status |-> 200, has_length |-> TRUE,
     length |-> OriginSize(url)]

\* HEAD answers of a failing origin: the resource is gone (404, with or
\* without a Content-Length for its error page), or there is no connection.
HeadFaults ==
    { [raised |-> FALSE, status |-> 404, has_length |-> TRUE,
       length |-> Len(ErrorBody)],
      [raised |-> FALSE, status |-> 404, has_length |-> FALSE, length |-> 0],
      [raised |-> TRUE, status |-> 0, has_length |-> FALSE, length |-> 0] }

\* GET with "Range: bytes=first-last" on an existing resource: 206 with the
\* bytes, or 416 when the range starts at or past the end (the 416 body is
\* empty or an error page).
GetOk(req) ==
    IF req.first < OriginSize(req.url)
    THEN { [raised |-> FALSE, status |-> 206,
            body |-> OriginRange(req.url, req.first, req.last + 1)] }
    ELSE { [raised |-> FALSE, status |-> 416, body |-> b] :
             b \in { << >>, ErrorBody } }

\* GET answers of a failing origin: a server error, or no connection.
GetFaults ==
    { [raised |-> FALSE, status |-> 500, body |-> ErrorBody],
      [raised |-> TRUE, status |-> 0, body |-> << >>] }

(***************************************************************************)
(* self.disk_cache: diskcache.Cache(cache_dir, size_limit), a sequence of  *)
(* [key, data] in the order the entries were stored.                       *)
(***************************************************************************)
\* cache_key = "{}.{}".format(url, block_num): block_num prints without a
\* '.', so the text after the last '.' gives the block and the rest the url.
CacheKey(url, block_num) == << url, block_num >>

\* a slip: the block store is never found to hold a key
CacheHas_Never(cache, key) == FALSE

\* cache_key in cache
CacheHas(cache, key) == \E i \in 1..Len(cache) : cache[i].key = key

\* cache[cache_key]
CacheGet(cache, key) ==
    cache[CHOOSE i \in 1..Len(cache) : cache[i].key = key].data

SumLen(cache) ==
    LET RECURSIVE Sum(_)
        Sum(i) == IF i = 0 THEN 0 ELSE Len(cache[i].data) + Sum(i - 1)
    IN  Sum(Len(cache))

\* diskcache culls after a store: the least recently stored entries go
\* while the stored bytes exceed the size limit.
RECURSIVE Cull(_)
Cull(cache) ==
    IF Len(cache) > 0 /\ SumLen(cache) > size_limit
    THEN Cull(Tail(cache))
    ELSE cache

\* cache[cache_key] = block_data
CacheSet(cache, key, data) ==
    LET rest == SelectSeq(cache, LAMBDA e : e.key # key)
    IN  Cull(Append(rest, [key |-> key, data |-> data]))

CacheKeys(cache) == { cache[i].key : i \in 1..Len(cache) }

(***************************************************************************)
(* State.                                                                  *)
(***************************************************************************)
VARIABLES
    files,          \* self.files: path -> [time, attr]
    disk_cache,     \* self.disk_cache
    lru_hits,       \* self.lru_hits
    lru_misses,     \* self.lru_misses
    phase,          \* "created", "mounted" (after init), "destroyed"
    timer_due,      \* when self.cleanup_thread, once started, fires
    now,            \* time()
    th,             \* the call each thread is in
    lru_cache,      \* self.lru_cache.cache, an OrderedDict: [key, value] in order
    lru_log,        \* the calls made on self.lru_cache so far
    cleanup_thread  \* self.cleanup_thread, the Timer, and its run of cleanup

vars == << files, disk_cache, lru_hits, lru_misses, phase, timer_due,
           now, th, lru_cache, lru_log, cleanup_thread >>

\* dict(st_mode=(S_IFDIR | 0o555), st_nlink=2)
DirAttr == [st_mode |-> "S_IFDIR", st_size |-> 0, st_ctime |-> 0]

NoAttr == [st_mode |-> "", st_size |-> 0, st_ctime |-> 0]

\* A thread outside any call.  Beside the locals of the handler it runs, a
\* thread keeps the get_block calls made (calls: the block and the slice
\* taken from it; blocks: the bytes get_block returned), the requests sent (reqs), the status codes of their
\* responses (statuses, 0 for a request that raised) and how the call ended
\* (attr for getattr, output for read, err for an exception).
Idle ==
    [pc |-> "idle", op |-> "", path |-> "", size |-> 0, offset |-> 0,
     output |-> << >>, last_fetched |-> 0, curr_start |-> 0,
     block_data |-> << >>, calls |-> << >>, blocks |-> << >>,
     reqs |-> << >>, statuses |-> << >>,
     attr |-> NoAttr, err |-> ""]

\* The Timer of self.cleanup_thread.  pc: "created" (not started),
\* "waiting" (started, its interval running), "cancelled", and while its
\* thread runs cleanup "iter" (in the comprehension over self.files),
\* "install" (about to assign self.files), "restart" (about to start the
\* next Timer) or "failed" (the thread ended by an exception).  now is
\* cleanup's local, used the size of self.files when the iteration began,
\* todo the keys not yet visited, kept the keys of the new dict.
NewTimer ==
    [pc |-> "created", now |-> 0, used |-> 0, todo |-> {}, kept |-> {}]

\* f with f[k] = v
Put(f, k, v) == [x \in DOMAIN f \cup {k} |-> IF x = k THEN v ELSE f[x]]

Init ==
    /\ files = << >>
    /\ disk_cache = << >>
    /\ lru_hits = 0
    /\ lru_misses = 0
    /\ phase = "created"
    /\ timer_due = 0
    /\ now = 0
    /\ th = [t \in Threads |-> Idle]
    /\ lru_cache = << >>
    /\ lru_log = << >>
    /\ cleanup_thread = NewTimer

Mounted == phase = "mounted"

\* self.lru_hits += 1, self.lru_misses += 1: the counters are only logged,
\* and the model keeps their value up to MaxCount.
Incr(counter) == Min(counter + 1, MaxCount)

(***************************************************************************)
(* HttpFs.getattr                                                          *)
(***************************************************************************)
\* a slip: the creation time left at 0
FileAttr_NoTime(length, time) ==
    [st_mode |-> "S_IFREG", st_size |-> length, st_ctime |-> 0]

\* dict(st_mode=(S_IFREG | 0o644), st_nlink=1, st_size=..., st_ctime=time(), ...)
FileAttr(length, time) ==
    [st_mode |-> "S_IFREG", st_size |-> length, st_ctime |-> time]

\* getattr up to its HEAD request: a known path returns its stored
\* attributes, a file path sends the request, any other path is a directory.
GetattrCall(t, path) ==
    /\ Mounted
    /\ th[t].pc = "idle"
    /\ th' = [th EXCEPT ![t] =
                IF path \in DOMAIN files
                THEN [Idle EXCEPT !.pc = "done", !.op = "getattr",
                                  !.path = path, !.attr = files[path].attr]
                ELSE IF EndsWithDotDot(path)
                THEN [Idle EXCEPT !.pc = "head", !.op = "getattr",
                                  !.path = path,
                                  !.reqs = << [verb |-> "HEAD",
                                               url |-> Url(path),
                                               first |-> 0, last |-> 0] >>]
                ELSE [Idle EXCEPT !.pc = "done", !.op = "getattr",
                                  !.path = path, !.attr = DirAttr]]
    /\ UNCHANGED << cleanup_thread, lru_cache, lru_log, files, disk_cache, lru_hits,
                    lru_misses, phase, timer_due, now >>

\* getattr from the answer to its HEAD request: the status is not looked
\* at; int(head.headers['Content-Length']) raises KeyError without the header.
HeadReturn(t, head) ==
    /\ th[t].pc = "head"
    /\ IF head.raised
       THEN /\ th' = [th EXCEPT ![t].pc = "done",
                                ![t].err = "ConnectionError",
                                ![t].statuses = << 0 >>]
            /\ UNCHANGED files
       ELSE IF ~head.has_length
       THEN /\ th' = [th EXCEPT ![t].pc = "done", ![t].err = "KeyError",
                                ![t].statuses = << head.status >>]
            /\ UNCHANGED files
       ELSE LET attr == FileAttr(head.length, now)
            IN  /\ files' = Put(files, th[t].path,
                                [time |-> now, attr |-> attr])
                /\ th' = [th EXCEPT ![t].pc = "done", ![t].attr = attr,
                                    ![t].statuses = << head.status >>]
    /\ UNCHANGED << cleanup_thread, lru_cache, lru_log, disk_cache, lru_hits, lru_misses,
                    phase, timer_due, now >>

(***************************************************************************)
(* HttpFs.read and HttpFs.get_block                                        *)
(***************************************************************************)
\* a slip: blocks counted from 1
BlockNum_FromOne(curr_start) == curr_start \div BLOCK_SIZE + 1

\* block_num = curr_start // BLOCK_SIZE
BlockNum(curr_start) == curr_start \div BLOCK_SIZE

\* block_start = BLOCK_SIZE * (curr_start // BLOCK_SIZE)
BlockStart(curr_start) == BLOCK_SIZE * (curr_start \div BLOCK_SIZE)

\* a slip: the slice starts at the head of every block
DataStart_Zero(curr_start) == 0

\* data_start = curr_start - (curr_start // BLOCK_SIZE) * BLOCK_SIZE
DataStart(curr_start) ==
    curr_start - (curr_start \div BLOCK_SIZE) * BLOCK_SIZE

\* data_end = min(BLOCK_SIZE, offset + size - block_start)
DataEnd(offset, size, block_start) ==
    Min(BLOCK_SIZE, offset + size - block_start)

\* block_data[data_start:data_end] for 0 <= data_start
Slice(block_data, data_start, data_end) ==
    LET hi == Min(data_end, Len(block_data))
    IN  IF hi <= data_start THEN << >>
        ELSE SubSeq(block_data, data_start + 1, hi)

\* a slip: the data is written at the head of output
Copy_NoOffset(output, at, data) ==
    [i \in 1..Len(output) |->
        IF i <= Len(data) THEN data[i] ELSE output[i]]

\* for (j,d) in enumerate(data): output[at + j] = d
Copy(output, at, data) ==
    [i \in 1..Len(output) |->
        IF at < i /\ i <= at + Len(data) THEN data[i - at] ELSE output[i]]

\* a slip: <= for <
LoopTest_Le(r) == r.last_fetched <= r.offset + r.size

\* while last_fetched < offset + size
LoopTest(r) == r.last_fetched < r.offset + r.size

\* The rest of the loop body once get_block has returned block_data.
Consume(r, block_data) ==
    LET block_start == BlockStart(r.curr_start)
        data_start == DataStart(r.curr_start)
        data_end == DataEnd(r.offset, r.size, block_start)
        data == Slice(block_data, data_start, data_end)
    IN  [r EXCEPT
           !.pc = "loop",
           !.block_data = block_data,
           !.output = Copy(r.output, r.curr_start - r.offset, data),
           !.last_fetched = r.curr_start + (data_end - data_start),
           !.curr_start = r.curr_start + (data_end - data_start),
           !.calls = Append(r.calls,
                            [block |-> BlockNum(r.curr_start),
                             from |-> data_start, to |-> data_end]),
           !.blocks = Append(r.blocks, block_data)]

\* a slip: the range starts one byte late
RangeRequest_Late(url, block_num) ==
    [verb |-> "GET", url |-> url, first |-> block_num * BLOCK_SIZE + 1,
     last |-> block_num * BLOCK_SIZE + BLOCK_SIZE - 1]

\* headers = {'Range': 'bytes={}-{}'.format(block_start, block_start + BLOCK_SIZE - 1)}
RangeRequest(url, block_num) ==
    [verb |-> "GET", url |-> url, first |-> block_num * BLOCK_SIZE,
     last |-> block_num * BLOCK_SIZE + BLOCK_SIZE - 1]

\* The locals of read before its loop: output = [0 for i in range(size)],
\* last_fetched = -1, curr_start = offset.
ReadStart(path, size, offset) ==
    [Idle EXCEPT !.pc = "loop", !.op = "read", !.path = path,
                 !.size = size, !.offset = offset,
                 !.output = [i \in 1..size |-> 0],
                 !.last_fetched = -1, !.curr_start = offset]

\* a slip: read does not look for the path in self.files
ReadCall_NoCheck(t, path, size, offset) ==
    /\ Mounted
    /\ th[t].pc = "idle"
    /\ th' = [th EXCEPT ![t] = ReadStart(path, size, offset)]
    /\ UNCHANGED << cleanup_thread, lru_cache, lru_log, files, disk_cache,
                    lru_hits, lru_misses, phase, timer_due, now >>

\* read up to its loop: an unknown path raises FuseOSError(EIO).
ReadCall(t, path, size, offset) ==
    /\ Mounted
    /\ th[t].pc = "idle"
    /\ th' = [th EXCEPT ![t] =
                IF path \in DOMAIN files
                THEN ReadStart(path, size, offset)
                ELSE [Idle EXCEPT !.pc = "done", !.op = "read",
                                  !.path = path, !.err = "EIO"]]
    /\ UNCHANGED << cleanup_thread, lru_cache, lru_log, files, disk_cache, lru_hits,
                    lru_misses, phase, timer_due, now >>

\* One pass of the loop up to get_block's answer or its remote request: a
\* cached block is returned and used, a missing one is requested.
ReadBlock(t) ==
    LET r == th[t]
        url == Url(r.path)
        block_num == BlockNum(r.curr_start)
        key == CacheKey(url, block_num)
    IN  /\ r.pc = "loop"
        /\ LoopTest(r)
        /\ IF CacheHas(disk_cache, key)
           THEN /\ lru_hits' = Incr(lru_hits)
                /\ th' = [th EXCEPT ![t] =
                            Consume(r, CacheGet(disk_cache, key))]
                /\ UNCHANGED lru_misses
           ELSE /\ lru_misses' = Incr(lru_misses)
                /\ th' = [th EXCEPT ![t].pc = "fetch",
                                    ![t].reqs = Append(r.reqs,
                                        RangeRequest(url, block_num))]
                /\ UNCHANGED lru_hits
        /\ UNCHANGED << cleanup_thread, lru_cache, lru_log, files, disk_cache,
                    phase, timer_due, now >>

\* get_block from the answer to its range request, and the rest of the
\* loop body: r.content is stored whatever the status; a ConnectionError
\* leaves read.
FetchReturn(t, resp) ==
    LET r == th[t]
        key == CacheKey(Url(r.path), BlockNum(r.curr_start))
    IN  /\ r.pc = "fetch"
        /\ IF resp.raised
           THEN /\ th' = [th EXCEPT ![t].pc = "done",
                                    ![t].err = "ConnectionError",
                                    ![t].statuses = Append(r.statuses, 0)]
                /\ UNCHANGED disk_cache
           ELSE /\ disk_cache' = CacheSet(disk_cache, key, resp.body)
                /\ th' = [th EXCEPT ![t] =
                            [Consume(r, resp.body) EXCEPT
                                !.statuses = Append(r.statuses,
                                                    resp.status)]]
        /\ UNCHANGED << cleanup_thread, lru_cache, lru_log, files, lru_hits, lru_misses,
                    phase, timer_due, now >>

\* After the loop: self.files[path]['time'] = t2 and return bytes(output);
\* the assignment raises KeyError when the path is no longer in self.files.
ReadFinish(t) ==
    LET r == th[t]
    IN  /\ r.pc = "loop"
        /\ ~LoopTest(r)
        /\ IF r.path \in DOMAIN files
           THEN /\ files' = [files EXCEPT ![r.path].time = now]
                /\ th' = [th EXCEPT ![t].pc = "done"]
           ELSE /\ th' = [th EXCEPT ![t].pc = "done",
                                    ![t].err = "KeyError"]
                /\ UNCHANGED files
        /\ UNCHANGED << cleanup_thread, lru_cache, lru_log, disk_cache, lru_hits, lru_misses,
                    phase, timer_due, now >>

\* The loop of read run to its end from the locals r on the block store
\* cache, every missing block fetched from the origin and stored: the
\* bytes read and the block store left behind.
RECURSIVE Assemble(_, _)
Assemble(r, cache) ==
    IF ~LoopTest(r)
    THEN [output |-> r.output, cache |-> cache]
    ELSE LET url == Url(r.path)
             block_num == BlockNum(r.curr_start)
             key == CacheKey(url, block_num)
             hit == CacheHas(cache, key)
             resp == CHOOSE x \in GetOk(RangeRequest(url, block_num)) : TRUE
             block_data == IF hit THEN CacheGet(cache, key) ELSE resp.body
         IN  Assemble(Consume(r, block_data),
                      IF hit THEN cache ELSE CacheSet(cache, key, block_data))

\* read(path, size, offset) of a known path on the block store cache
ReadOn(cache, path, size, offset) ==
    Assemble(ReadStart(path, size, offset), cache)

\* The origin answers the pending request of thread t.
HeadAnswered(t) ==
    /\ th[t].pc = "head"
    /\ HeadReturn(t, HeadOk(Url(th[t].path)))

HeadFailed(t) ==
    /\ th[t].pc = "head"
    /\ \E head \in HeadFaults : HeadReturn(t, head)

FetchAnswered(t) ==
    /\ th[t].pc = "fetch"
    /\ \E resp \in GetOk(th[t].reqs[Len(th[t].reqs)]) : FetchReturn(t, resp)

FetchFailed(t) ==
    /\ th[t].pc = "fetch"
    /\ \E resp \in GetFaults : FetchReturn(t, resp)

\* The call's result has gone back to the FUSE dispatcher.
Return(t) ==
    /\ th[t].pc = "done"
    /\ th' = [th EXCEPT ![t] = Idle]
    /\ UNCHANGED << cleanup_thread, lru_cache, lru_log, files, disk_cache, lru_hits,
                    lru_misses, phase, timer_due, now >>

(***************************************************************************)
(* HttpFs.init, HttpFs.destroy, HttpFs.cleanup and the clock               *)
(***************************************************************************)
\* self.cleanup_thread.start(): Timer(CLEANUP_INTERVAL, self.cleanup)
FuseInit ==
    /\ phase = "created"
    /\ phase' = "mounted"
    /\ timer_due' = now + CLEANUP_INTERVAL
    /\ cleanup_thread' = [cleanup_thread EXCEPT !.pc = "waiting"]
    /\ UNCHANGED << lru_cache, lru_log, files, disk_cache, lru_hits,
                    lru_misses, now, th >>

\* self.cleanup_thread.cancel(): a Timer that waits is stopped; on a Timer
\* whose function already runs cancel() does nothing.
FuseDestroy ==
    /\ Mounted
    /\ \A t \in Threads : th[t].pc = "idle"
    /\ phase' = "destroyed"
    /\ cleanup_thread' =
         IF cleanup_thread.pc = "waiting"
         THEN [cleanup_thread EXCEPT !.pc = "cancelled"]
         ELSE cleanup_thread
    /\ UNCHANGED << lru_cache, lru_log, files, disk_cache, lru_hits,
                    lru_misses, timer_due, now, th >>

\* a slip: <= for <
Fresh_Le(time, entry) == time - entry.time <= CLEANUP_EXPIRED

\* if now - v['time'] < CLEANUP_EXPIRED
Fresh(time, entry) == time - entry.time < CLEANUP_EXPIRED

\* {k: v for k, v in self.files.items() if now - v['time'] < CLEANUP_EXPIRED}
Sweep(fs, time) ==
    [p \in { q \in DOMAIN fs : Fresh(time, fs[q]) } |-> fs[p]]

\* a slip: the sweep also drops the stored blocks of the paths it removes
Cleanup_DropsBlocks ==
    /\ Mounted
    /\ cleanup_thread.pc = "waiting"
    /\ now >= timer_due
    /\ files' = Sweep(files, now)
    /\ disk_cache' = SelectSeq(disk_cache,
           LAMBDA e : \E q \in DOMAIN Sweep(files, now) : Url(q) = e.key[1])
    /\ timer_due' = now + CLEANUP_INTERVAL
    /\ UNCHANGED << cleanup_thread, lru_cache, lru_log, lru_hits, lru_misses,
                    phase, now, th >>

\* The timer fires: cleanup filters self.files and starts the next timer,
\* with no step of another thread in between.
Cleanup ==
    /\ Mounted
    /\ cleanup_thread.pc = "waiting"
    /\ now >= timer_due
    /\ files' = Sweep(files, now)
    /\ timer_due' = now + CLEANUP_INTERVAL
    /\ UNCHANGED << cleanup_thread, lru_cache, lru_log, disk_cache, lru_hits, lru_misses,
                    phase, now, th >>

(***************************************************************************)
(* cleanup step by step, as the Timer's thread runs it beside the threads  *)
(* of the FUSE dispatcher.  No lock is taken anywhere in the source, and   *)
(* the interpreter may switch threads inside the comprehension and before  *)
(* the assignment of its result.                                           *)
(***************************************************************************)
\* len(self.files)
NumFiles(fs) == Cardinality(DOMAIN fs)

\* Timer.run: the interval is over and the Timer is not cancelled;
\* cleanup takes now = time() and begins to iterate self.files.items().
CleanupFire ==
    /\ cleanup_thread.pc = "waiting"
    /\ now >= timer_due
    /\ cleanup_thread' =
         [pc |-> "iter", now |-> now, used |-> NumFiles(files),
          todo |-> DOMAIN files, kept |-> {}]
    /\ UNCHANGED << lru_cache, lru_log, files, disk_cache, lru_hits,
                    lru_misses, phase, timer_due, now, th >>

\* One step of the iterator of self.files.items(): RuntimeError
\* ("dictionary changed size during iteration") when the dict has got
\* another size since the iteration began, the end of the comprehension
\* when nothing is left, and otherwise the next item, kept if it is fresh.
CleanupVisit ==
    /\ cleanup_thread.pc = "iter"
    /\ IF NumFiles(files) # cleanup_thread.used
       THEN cleanup_thread' = [cleanup_thread EXCEPT !.pc = "failed"]
       ELSE IF cleanup_thread.todo \cap DOMAIN files = {}
       THEN cleanup_thread' = [cleanup_thread EXCEPT !.pc = "install"]
       ELSE \E k \in cleanup_thread.todo \cap DOMAIN files :
              cleanup_thread' =
                [cleanup_thread EXCEPT
                   !.todo = @ \ {k},
                   !.kept = IF Fresh(cleanup_thread.now, files[k])
                            THEN @ \cup {k} ELSE @]
    /\ UNCHANGED << lru_cache, lru_log, files, disk_cache, lru_hits,
                    lru_misses, phase, timer_due, now, th >>

\* self.files = {...}: the new dict holds the kept keys; its values are the
\* very dicts of the old one, so a time written after the visit is in it.
CleanupInstall ==
    /\ cleanup_thread.pc = "install"
    /\ files' = [k \in cleanup_thread.kept |-> files[k]]
    /\ cleanup_thread' = [cleanup_thread EXCEPT !.pc = "restart"]
    /\ UNCHANGED << lru_cache, lru_log, disk_cache, lru_hits, lru_misses,
                    phase, timer_due, now, th >>

\* self.cleanup_thread = self._generate_cleanup_thread(): the next Timer is
\* created and started.
CleanupRestart ==
    /\ cleanup_thread.pc = "restart"
    /\ cleanup_thread' = [NewTimer EXCEPT !.pc = "waiting"]
    /\ timer_due' = now + CLEANUP_INTERVAL
    /\ UNCHANGED << lru_cache, lru_log, files, disk_cache, lru_hits,
                    lru_misses, phase, now, th >>

\* time() moves on between calls and while a call waits for the origin;
\* it is counted from the mount.
Tick ==
    /\ Mounted
    /\ now < MaxTime
    /\ \A t \in Threads : th[t].pc \in {"idle", "head", "fetch"}
    /\ now' = now + 1
    /\ UNCHANGED << cleanup_thread, lru_cache, lru_log, files, disk_cache, lru_hits,
                    lru_misses, phase, timer_due, th >>

\* the arguments of read
ReadArgs ==
    { a \in (0..MaxEnd) \X (0..MaxEnd) : a[1] + a[2] <= MaxEnd }

\* No call is in progress.
Quiet == \A u \in Threads : th[u].pc \in {"idle", "done"}

(***************************************************************************)
(* LRUCache                                                                *)
(***************************************************************************)
LruKeys == {"k1", "k2", "k3"}

LruValues == {"u", "v"}

\* key in self.cache
LruHas(cache, key) == \E i \in 1..Len(cache) : cache[i].key = key

\* the value stored under a key that is present
LruValue(cache, key) ==
    cache[CHOOSE i \in 1..Len(cache) : cache[i].key = key].value

\* self.cache.pop(key) for a key that is present: what is left
LruPop(cache, key) == SelectSeq(cache, LAMBDA e : e.key # key)

\* a slip: __getitem__ returns the value and leaves the order alone
LruGetResult_NoMove(cache, key) == cache

\* __getitem__: value = self.cache.pop(key); self.cache[key] = value
LruGetResult(cache, key) ==
    Append(LruPop(cache, key), [key |-> key, value |-> LruValue(cache, key)])

\* a slip: a full cache drops an item even when the key is present
LruSetResult_EvictsWhenFull(cache, key, value) ==
    LET rest == IF Len(cache) >= capacity THEN Tail(LruPop(cache, key))
                ELSE LruPop(cache, key)
    IN  Append(rest, [key |-> key, value |-> value])

\* __setitem__: pop the key, or on KeyError drop the first item of a full
\* cache; then self.cache[key] = value
LruSetResult(cache, key, value) ==
    LET rest == IF LruHas(cache, key) THEN LruPop(cache, key)
                ELSE IF Len(cache) >= capacity THEN Tail(cache)
                ELSE cache
    IN  Append(rest, [key |-> key, value |-> value])

Logged(name, key, value, ok) ==
    [name |-> name, key |-> key, value |-> value, ok |-> ok]

\* LRUCache.__getitem__(key): KeyError for a missing key
LruGetItem(key) ==
    /\ Len(lru_log) < MaxLog
    /\ IF LruHas(lru_cache, key)
       THEN /\ lru_cache' = LruGetResult(lru_cache, key)
            /\ lru_log' = Append(lru_log,
                   Logged("get", key, LruValue(lru_cache, key), TRUE))
       ELSE /\ UNCHANGED lru_cache
            /\ lru_log' = Append(lru_log, Logged("get", key, "", FALSE))
    /\ UNCHANGED << cleanup_thread, files, disk_cache, lru_hits, lru_misses, phase,
                    timer_due, now, th >>

\* LRUCache.__setitem__(key, value)
LruSetItem(key, value) ==
    /\ Len(lru_log) < MaxLog
    /\ lru_cache' = LruSetResult(lru_cache, key, value)
    /\ lru_log' = Append(lru_log, Logged("set", key, value, TRUE))
    /\ UNCHANGED << cleanup_thread, files, disk_cache, lru_hits, lru_misses, phase,
                    timer_due, now, th >>

\* LRUCache.__contains__(key)
LruContains(key) ==
    /\ Len(lru_log) < MaxLog
    /\ lru_log' = Append(lru_log,
           Logged("contains", key, "", LruHas(lru_cache, key)))
    /\ UNCHANGED << cleanup_thread, files, disk_cache, lru_hits, lru_misses, phase,
                    timer_due, now, th, lru_cache >>

(***************************************************************************)
(* SpecLRU: any calls on an LRUCache of the given capacity.                *)
(***************************************************************************)
NextLRU ==
    \/ \E key \in LruKeys : LruGetItem(key)
    \/ \E key \in LruKeys, value \in LruValues : LruSetItem(key, value)
    \/ \E key \in LruKeys : LruContains(key)

SpecLRU == Init /\ [][NextLRU]_vars

(***************************************************************************)
(* SpecRead: the block-read engine.  The calls of the FUSE dispatcher run  *)
(* one at a time on thread 1, the origin answers every request, and the    *)
(* clock and the cleanup timer stand still (they act on self.files only,   *)
(* which read consults for membership).                                    *)
(***************************************************************************)
NextRead ==
    \/ FuseInit
    \/ FuseDestroy
    \/ \E path \in Paths : GetattrCall(1, path)
    \/ HeadAnswered(1)
    \/ \E path \in Paths, a \in ReadArgs : ReadCall(1, path, a[2], a[1])
    \/ ReadBlock(1)
    \/ FetchAnswered(1)
    \/ ReadFinish(1)
    \/ Return(1)

SpecRead == Init /\ [][NextRead]_vars

(***************************************************************************)
(* SpecMeta: the metadata map under the clock and the cleanup timer.  The  *)
(* calls run one at a time on thread 1, a sweep runs between calls, the    *)
(* origin answers every request, and every read is of the first byte.      *)
(***************************************************************************)
NextMeta ==
    \/ FuseInit
    \/ FuseDestroy
    \/ Tick
    \/ Quiet /\ Cleanup
    \/ \E path \in Paths : GetattrCall(1, path)
    \/ HeadAnswered(1)
    \/ \E path \in Paths : ReadCall(1, path, 1, 0)
    \/ ReadBlock(1)
    \/ FetchAnswered(1)
    \/ ReadFinish(1)
    \/ Return(1)

SpecMeta == Init /\ [][NextMeta]_vars

(***************************************************************************)
(* SpecFrame: SpecMeta with reads of the first and of the third byte of a  *)
(* resource, which store enough blocks for the block store to cull.        *)
(***************************************************************************)
FrameReadArgs == { << 0, 1 >>, << BLOCK_SIZE, 1 >> }

NextFrame ==
    \/ FuseInit
    \/ FuseDestroy
    \/ Tick
    \/ Quiet /\ Cleanup
    \/ \E path \in Paths : GetattrCall(1, path)
    \/ HeadAnswered(1)
    \/ \E path \in Paths, a \in FrameReadArgs : ReadCall(1, path, a[2], a[1])
    \/ ReadBlock(1)
    \/ FetchAnswered(1)
    \/ ReadFinish(1)
    \/ Return(1)

SpecFrame == Init /\ [][NextFrame]_vars

(***************************************************************************)
(* SpecFault: SpecRead with an origin that may fail any request.           *)
(***************************************************************************)
NextFault ==
    \/ FuseInit
    \/ FuseDestroy
    \/ \E path \in Paths : GetattrCall(1, path)
    \/ HeadAnswered(1)
    \/ HeadFailed(1)
    \/ \E path \in Paths, a \in ReadArgs : ReadCall(1, path, a[2], a[1])
    \/ ReadBlock(1)
    \/ FetchAnswered(1)
    \/ FetchFailed(1)
    \/ ReadFinish(1)
    \/ Return(1)

SpecFault == Init /\ [][NextFault]_vars

(***************************************************************************)
(* SpecConc: the FUSE dispatcher runs calls on all its threads at once;    *)
(* the steps of the calls interleave.  The origin answers every request,   *)
(* the clock and the cleanup timer stand still, and every read is of at    *)
(* least one byte.                                                         *)
(***************************************************************************)
ConcReadArgs == { a \in ReadArgs : a[2] > 0 }

NextConc ==
    \/ FuseInit
    \/ FuseDestroy
    \/ \E t \in Threads :
        \/ \E path \in Paths : GetattrCall(t, path)
        \/ HeadAnswered(t)
        \/ \E path \in Paths, a \in ConcReadArgs :
              ReadCall(t, path, a[2], a[1])
        \/ ReadBlock(t)
        \/ FetchAnswered(t)
        \/ ReadFinish(t)
        \/ Return(t)

SpecConc == Init /\ [][NextConc]_vars

(***************************************************************************)
(* SpecSweep: the Timer's thread runs cleanup step by step while the calls *)
(* of the FUSE dispatcher run on thread 1 and the clock moves; destroy may *)
(* come at any step of cleanup.  The origin answers every request, and     *)
(* every read is of the first byte.  (With one dispatcher thread no entry  *)
(* of self.files is replaced while cleanup holds it.)                      *)
(***************************************************************************)
NextSweep ==
    \/ FuseInit
    \/ FuseDestroy
    \/ Tick
    \/ CleanupFire
    \/ CleanupVisit
    \/ CleanupInstall
    \/ CleanupRestart
    \/ \E path \in Paths : GetattrCall(1, path)
    \/ HeadAnswered(1)
    \/ \E path \in Paths : ReadCall(1, path, 1, 0)
    \/ ReadBlock(1)
    \/ FetchAnswered(1)
    \/ ReadFinish(1)
    \/ Return(1)

SpecSweep == Init /\ [][NextSweep]_vars

\* The Timer's thread is scheduled: a cleanup that runs takes its next
\* step, and a Timer whose interval is over fires.
SpecSweepFair ==
    /\ SpecSweep
    /\ WF_vars(CleanupFire)
    /\ WF_vars(CleanupVisit)
    /\ WF_vars(CleanupInstall)
    /\ WF_vars(CleanupRestart)

(***************************************************************************)
(* Claims                                                                  *)
(***************************************************************************)
InRange(r) ==
    /\ r.size > 0
    /\ r.offset + r.size <= OriginSize(Url(r.path))

\* A read that has returned to its caller.
ReadDone(r) == r.pc = "done" /\ r.op = "read"

\* C1: a read of a range inside a resource, on a path known to getattr,
\* returns exactly the origin's bytes of that range, whether its blocks
\* were fetched or were already cached.
C1_ReadReturnsOriginBytes ==
    \A t \in Threads :
        LET r == th[t]
        IN  (ReadDone(r) /\ r.err # "EIO" /\ InRange(r)) =>
                /\ r.err = ""
                /\ r.output = OriginRange(Url(r.path), r.offset,
                                          r.offset + r.size)

\* A read across two blocks has returned the origin's bytes without any
\* remote request: both blocks were cached by earlier reads.
C1_Witness ==
    \E t \in Threads :
        LET r == th[t]
        IN  /\ ReadDone(r) /\ r.err = "" /\ InRange(r)
            /\ Len(r.calls) = 2
            /\ r.reqs = << >>
            /\ r.output = OriginRange(Url(r.path), r.offset,
                                      r.offset + r.size)

\* C2: on any block store the program can reach between calls, reading a known resource
\* whole gives the same bytes as reading it up to an interior point k and
\* then from k to its end, for every k.
C2_SplitReadsConcatenate ==
    (\A t \in Threads : th[t].pc = "idle") =>
    \A path \in DOMAIN files :
        LET S == OriginSize(Url(path))
        IN  \A k \in 1..(S - 1) :
                LET whole == ReadOn(disk_cache, path, S, 0)
                    head == ReadOn(disk_cache, path, k, 0)
                    tail == ReadOn(head.cache, path, S - k, k)
                IN  whole.output = head.output \o tail.output

\* The block store holds the second block of "/a.." and not its first, and
\* the split at k = 1 (inside the first block) gives the whole resource.
C2_Witness ==
    /\ \A t \in Threads : th[t].pc = "idle"
    /\ "/a.." \in DOMAIN files
    /\ CacheKey("http://a", 1) \in CacheKeys(disk_cache)
    /\ CacheKey("http://a", 0) \notin CacheKeys(disk_cache)
    /\ ReadOn(disk_cache, "/a..", 1, 0).output
         \o ReadOn(ReadOn(disk_cache, "/a..", 1, 0).cache, "/a..", 2, 1).output
       = OriginRange("http://a", 0, 3)

Max(a, b) == IF a > b THEN a ELSE b

\* The blocks a read of [offset, offset + size) needs, in order, each with
\* the part of it that lies in the range.
Overlaps(offset, size) ==
    LET first == offset \div BLOCK_SIZE
        last == (offset + size - 1) \div BLOCK_SIZE
    IN  [i \in 1..(last - first + 1) |->
            LET b == first + i - 1
            IN  [block |-> b,
                 from |-> Max(offset, b * BLOCK_SIZE) - b * BLOCK_SIZE,
                 to |-> Min(offset + size, (b + 1) * BLOCK_SIZE)
                        - b * BLOCK_SIZE]]

\* C3: a read of size > 0 calls get_block for the blocks from
\* offset div BLOCK_SIZE to (offset + size - 1) div BLOCK_SIZE, once each
\* in increasing order, and takes from each its overlap with the range.
C3_BlocksAndSlices ==
    \A t \in Threads :
        LET r == th[t]
        IN  (ReadDone(r) /\ r.err = "" /\ r.size > 0) =>
                r.calls = Overlaps(r.offset, r.size)

\* The read of 2 bytes at offset BLOCK_SIZE - 1 has used the last byte of
\* block 0 and the first byte of block 1.
C3_Witness ==
    \E t \in Threads :
        LET r == th[t]
        IN  /\ ReadDone(r) /\ r.err = "" /\ r.path = "/a.."
            /\ r.offset = BLOCK_SIZE - 1 /\ r.size = 2
            /\ r.calls = << [block |-> 0, from |-> BLOCK_SIZE - 1,
                             to |-> BLOCK_SIZE],
                            [block |-> 1, from |-> 0, to |-> 1] >>
            /\ r.output = << OriginByte("http://a", BLOCK_SIZE - 1),
                             OriginByte("http://a", BLOCK_SIZE) >>

\* The key of the block the loop of read is at.
KeyAt(r) == << Url(r.path), r.curr_start \div BLOCK_SIZE >>

\* C4: get_block on a key the block store holds returns the stored bytes
\* and sends no request; a range request is sent only for a key the block
\* store does not hold, and its body is then stored under that key.
C4_StoredBlockServed ==
    [][\A t \in Threads :
        LET r == th[t]
            q == th'[t]
            held == KeyAt(r) \in CacheKeys(disk_cache)
        IN  /\ (r.pc = "loop" /\ q # r /\ q.calls # r.calls) =>
                /\ held
                /\ q.block_data = CacheGet(disk_cache, KeyAt(r))
                /\ q.reqs = r.reqs
                /\ disk_cache' = disk_cache
            /\ (r.pc = "loop" /\ q.pc = "fetch") =>
                /\ ~held
                /\ q.reqs = Append(r.reqs,
                       [verb |-> "GET", url |-> Url(r.path),
                        first |-> KeyAt(r)[2] * BLOCK_SIZE,
                        last |-> (KeyAt(r)[2] + 1) * BLOCK_SIZE - 1])
            /\ (r.op = "read" /\ Len(q.reqs) > Len(r.reqs)) => ~held
            /\ (r.pc = "fetch" /\ q.pc = "loop") =>
                /\ KeyAt(r) \in CacheKeys(disk_cache')
                /\ CacheGet(disk_cache', KeyAt(r)) = q.block_data
                /\ q.block_data \in
                     { x.body : x \in GetOk(r.reqs[Len(r.reqs)]) }
      ]_vars

\* A read has got its first block from the block store, where an earlier
\* read had stored it, and has sent no request.
C4_Witness ==
    \E t \in Threads :
        LET r == th[t]
        IN  /\ r.op = "read" /\ r.pc = "loop"
            /\ Len(r.calls) = 1
            /\ r.reqs = << >>
            /\ lru_hits >= 1 /\ lru_misses >= 1
            /\ << Url(r.path), r.calls[1].block >> \in CacheKeys(disk_cache)
            /\ r.block_data =
                 CacheGet(disk_cache, << Url(r.path), r.calls[1].block >>)
            /\ r.block_data # << >>

\* A step of cleanup.
SweepStep == Mounted /\ timer_due' # timer_due

\* C5: a sweep at time now removes every entry of files with
\* now - time >= CLEANUP_EXPIRED and keeps every other entry as it is.
C5_SweepRemovesExpiredOnly ==
    [][SweepStep =>
        /\ DOMAIN files' \subseteq DOMAIN files
        /\ \A p \in DOMAIN files :
            /\ now - files[p].time >= CLEANUP_EXPIRED => p \notin DOMAIN files'
            /\ now - files[p].time < CLEANUP_EXPIRED =>
                 p \in DOMAIN files' /\ files'[p] = files[p]
      ]_vars

\* A sweep has just run (the timer was set at the present time, after the
\* mount's own timer): "/a..", whose block is cached by a read, is gone;
\* "/b..", which a read touched after getattr created it, is kept.
C5_Witness ==
    /\ Mounted
    /\ now >= CLEANUP_INTERVAL
    /\ timer_due = now + CLEANUP_INTERVAL
    /\ "/a.." \notin DOMAIN files
    /\ CacheKey("http://a", 0) \in CacheKeys(disk_cache)
    /\ "/b.." \in DOMAIN files
    /\ now - files["/b.."].time < CLEANUP_EXPIRED
    /\ files["/b.."].time > files["/b.."].attr.st_ctime

\* C6: getattr of a path in files returns the stored attributes, sends no
\* request and leaves files alone; getattr of a file path not in files
\* sends one HEAD request, stores one new entry with the size the origin
\* reports and both times the present time, and returns its attributes.
C6_GetattrHitAndMiss ==
    [][\A t \in Threads :
        LET r == th[t]
            q == th'[t]
        IN  /\ (r.pc = "idle" /\ q.op = "getattr" /\ q.path \in DOMAIN files) =>
                /\ q.pc = "done" /\ q.err = ""
                /\ q.attr = files[q.path].attr
                /\ q.reqs = << >>
                /\ files' = files
            /\ (r.pc = "idle" /\ q.op = "getattr"
                  /\ q.path \notin DOMAIN files
                  /\ q.path \in {"/a..", "/b.."}) =>
                /\ q.pc = "head"
                /\ q.reqs = << [verb |-> "HEAD", url |-> Url(q.path),
                                first |-> 0, last |-> 0] >>
                /\ files' = files
            /\ (r.pc = "head" /\ q.pc = "done") =>
                /\ q.err = ""
                /\ q.reqs = r.reqs
                /\ r.path \notin DOMAIN files
                /\ DOMAIN files' = DOMAIN files \cup {r.path}
                /\ \A p \in DOMAIN files : files'[p] = files[p]
                /\ files'[r.path].attr.st_size = OriginSize(Url(r.path))
                /\ files'[r.path].attr.st_ctime = now
                /\ files'[r.path].time = now
                /\ q.attr = files'[r.path].attr
      ]_vars

\* getattr of "/a.." has, after the clock moved, sent its one HEAD request
\* and stored and returned the entry of size 3 made at the present time.
C6_Witness ==
    \E t \in Threads :
        LET r == th[t]
        IN  /\ r.pc = "done" /\ r.op = "getattr" /\ r.path = "/a.."
            /\ Len(r.reqs) = 1 /\ r.reqs[1].verb = "HEAD"
            /\ now > 0
            /\ "/a.." \in DOMAIN files
            /\ files["/a.."].time = now
            /\ files["/a.."].attr.st_ctime = now
            /\ files["/a.."].attr.st_size = 3
            /\ r.attr = files["/a.."].attr

\* A status code of success.
Success(status) == status \in 200..299

\* C7: a getattr whose HEAD request is answered 404 ends as NotFound
\* (ENOENT) and leaves no entry for its path in files.
C7_NotFoundOn404 ==
    \A t \in Threads :
        LET r == th[t]
        IN  (r.pc = "done" /\ r.op = "getattr" /\ r.statuses = << 404 >>) =>
                /\ r.err = "ENOENT"
                /\ r.path \notin DOMAIN files

\* C8: a read of size > 0 one of whose range requests failed (it raised, or its
\* status is not a success) ends with an error, and the block store does
\* not hold the block of the failed request.
C8_FailedFetchFailsRead ==
    \A t \in Threads :
        LET r == th[t]
        IN  (ReadDone(r) /\ r.size > 0) =>
                \A i \in 1..Len(r.statuses) :
                    ~Success(r.statuses[i]) =>
                        /\ r.err # ""
                        /\ << r.reqs[i].url, r.reqs[i].first \div BLOCK_SIZE >>
                             \notin CacheKeys(disk_cache)

\* The keys of an LRUCache.
LruKeysOf(cache) == { cache[i].key : i \in 1..Len(cache) }

\* A touch of key: a __setitem__, or a __getitem__ that found it.
Touch(entry, key) ==
    /\ entry.key = key
    /\ entry.name = "set" \/ (entry.name = "get" /\ entry.ok)

\* The place in the log of the last touch of key, 0 when there is none.
LastTouch(log, key) ==
    LET at == { i \in 1..Len(log) : Touch(log[i], key) }
    IN  IF at = {} THEN 0 ELSE CHOOSE i \in at : \A j \in at : j <= i

\* C9: a __setitem__ of a key not in a full LRUCache removes the one key
\* touched least recently and nothing else; every other key keeps its value.
C9_EvictsLeastRecentlyTouched ==
    [][\A key \in LruKeys :
        (/\ Len(lru_log') = Len(lru_log) + 1
         /\ lru_log'[Len(lru_log')].name = "set"
         /\ lru_log'[Len(lru_log')].key = key
         /\ key \notin LruKeysOf(lru_cache)
         /\ Len(lru_cache) = capacity) =>
            LET victim == CHOOSE v \in LruKeysOf(lru_cache) :
                              \A o \in LruKeysOf(lru_cache) :
                                  LastTouch(lru_log, v) <= LastTouch(lru_log, o)
            IN  /\ LruKeysOf(lru_cache') =
                     (LruKeysOf(lru_cache) \ {victim}) \cup {key}
                /\ \A o \in LruKeysOf(lru_cache) \ {victim} :
                     LruValue(lru_cache', o) = LruValue(lru_cache, o)
                /\ LruValue(lru_cache', key) = lru_log'[Len(lru_log')].value
                /\ Len(lru_cache') = capacity
      ]_vars

\* k1 and k2 were set, k1 was read, and the set of k3 into the full cache
\* has removed k2 and kept k1.
C9_Witness ==
    /\ capacity = 2
    /\ Len(lru_log) = 4
    /\ lru_log[1] = Logged("set", "k1", "u", TRUE)
    /\ lru_log[2] = Logged("set", "k2", "u", TRUE)
    /\ lru_log[3] = Logged("get", "k1", "u", TRUE)
    /\ lru_log[4] = Logged("set", "k3", "v", TRUE)
    /\ lru_cache = << [key |-> "k1", value |-> "u"],
                      [key |-> "k3", value |-> "v"] >>

\* C10: no two calls have each sent a range request for the same block
\* whose answer they are both waiting for.
C10_OneFetchPerKey ==
    \A t, u \in Threads :
        (t # u /\ th[t].pc = "fetch" /\ th[u].pc = "fetch") =>
            th[t].reqs[Len(th[t].reqs)] # th[u].reqs[Len(th[u].reqs)]

\* C11: a sweep is atomic for the calls on other threads: no step changes
\* the keys of files while the sweep iterates them, and the assignment of
\* the filtered map removes only entries that are expired, by the sweep's
\* criterion, at that moment (so an entry inserted or refreshed since the
\* sweep read the map is still there).
C11_SweepIsAtomic ==
    [][/\ cleanup_thread.pc = "iter" => DOMAIN files' = DOMAIN files
       /\ (cleanup_thread.pc = "install" /\ cleanup_thread'.pc = "restart") =>
            \A p \in DOMAIN files :
                p \notin DOMAIN files' =>
                    cleanup_thread.now - files[p].time >= CLEANUP_EXPIRED
      ]_vars

\* C12: once destroy has been called no cleanup Timer waits for its
\* interval to end, whatever cleanup was doing when destroy came.
C12_NoTimerAfterDestroy ==
    phase = "destroyed" => cleanup_thread.pc # "waiting"

\* C13: every run of cleanup ends with the next Timer started, whatever
\* getattr and read do meanwhile.
C13_SweepsKeepHappening ==
    (cleanup_thread.pc = "iter") ~> (cleanup_thread.pc = "waiting")

\* C15: a read that found its path in files returns its bytes without an
\* error, a sweep during the read notwithstanding.
C15_ReadSurvivesSweep ==
    \A t \in Threads :
        LET r == th[t]
        IN  (ReadDone(r) /\ r.err # "EIO") =>
                /\ r.err = ""
                /\ r.output = OriginRange(Url(r.path), r.offset,
                                          r.offset + r.size)

\* A step of get_block on thread t: the pass of the loop of read up to the
\* block's return or its request, or from the answer on.
GetBlockStep(t) ==
    /\ th[t].op = "read"
    /\ th[t].pc \in {"loop", "fetch"}
    /\ th'[t].pc \in {"loop", "fetch", "done"}
    /\ \/ th'[t].calls # th[t].calls
       \/ th'[t].reqs # th[t].reqs
       \/ th'[t].statuses # th[t].statuses

\* C14: a sweep leaves the block store as it is, and get_block (a hit, a
\* miss that stores, a store that culls other blocks) leaves files as it is.
C14_FilesAndBlocksIndependent ==
    [][/\ SweepStep => disk_cache' = disk_cache
       /\ (\E t \in Threads : GetBlockStep(t)) => files' = files
       /\ disk_cache' # disk_cache => files' = files
      ]_vars

\* A sweep has removed "/a.." and left its block in the block store, and
\* a later read of "/b.." has missed and stored a block with "/b.." the
\* only entry of files before and after.
C14_Witness ==
    /\ DOMAIN files = {"/b.."}
    /\ Len(disk_cache) >= 2
    /\ disk_cache[Len(disk_cache)].key[1] = "http://b"
    /\ \E i \in 1..(Len(disk_cache) - 1) : disk_cache[i].key[1] = "http://a"
    /\ th[1].op = "read" /\ th[1].pc = "loop" /\ th[1].path = "/b.."
    /\ Len(th[1].reqs) = 1
    /\ timer_due > CLEANUP_INTERVAL

\* C16: the block store holds one value for a key, and the value under
\* (url, b), for a block b that begins inside the resource (its range
\* request is answered 206), is the origin's bytes from b * BLOCK_SIZE to
\* the end of the block or of the resource, at most BLOCK_SIZE of them.
\* The value of a key is thus the same whenever the key is stored, by one
\* call or by calls that missed it together.
C16_StoredBlocksAreOriginBlocks ==
    \A i \in 1..Len(disk_cache) :
        LET url == disk_cache[i].key[1]
            b == disk_cache[i].key[2]
            data == disk_cache[i].data
        IN  /\ \A j \in 1..Len(disk_cache) :
                 disk_cache[j].key = disk_cache[i].key => j = i
            /\ b * BLOCK_SIZE < OriginSize(url) =>
                 /\ data = OriginRange(url, b * BLOCK_SIZE,
                                        Min((b + 1) * BLOCK_SIZE,
                                            OriginSize(url)))
                 /\ Len(data) <= BLOCK_SIZE

\* Both threads missed block 0 of "/a..", both got the answer to their
\* range request and stored it, and the store holds the block's bytes;
\* the short last block of "/a.." is stored too.
C16_Witness ==
    /\ \A t \in {1, 2} :
         /\ th[t].op = "read" /\ th[t].pc \in {"loop", "done"}
         /\ Len(th[t].reqs) >= 1
         /\ th[t].reqs[1] = RangeRequest("http://a", 0)
         /\ Len(th[t].statuses) >= 1
         /\ th[t].statuses[1] = 206
    /\ CacheHas(disk_cache, CacheKey("http://a", 0))
    /\ CacheGet(disk_cache, CacheKey("http://a", 0))
         = << OriginByte("http://a", 0), OriginByte("http://a", 1) >>
    /\ CacheHas(disk_cache, CacheKey("http://a", 1))
    /\ CacheGet(disk_cache, CacheKey("http://a", 1))
         = << OriginByte("http://a", 2) >>

\* C17: read of a path that is not in files ends at once with EIO: it
\* calls get_block for no block, sends no request and leaves files, the
\* block store and the counters as they are.
C17_UnknownPathIsEIO ==
    [][\A t \in Threads :
        LET r == th[t]
            q == th'[t]
        IN  (r.pc = "idle" /\ q.op = "read" /\ q.path \notin DOMAIN files) =>
                /\ q.pc = "done"
                /\ q.err = "EIO"
                /\ q.reqs = << >>
                /\ q.calls = << >>
                /\ files' = files
                /\ disk_cache' = disk_cache
                /\ lru_hits' = lru_hits
                /\ lru_misses' = lru_misses
      ]_vars

\* After a sweep has removed "/a..", whose only block needed is still in
\* the block store, a read of "/a.." has ended with EIO and no request.
C17_Witness ==
    /\ th[1].op = "read" /\ th[1].pc = "done" /\ th[1].path = "/a.."
    /\ th[1].err = "EIO"
    /\ th[1].reqs = << >>
    /\ "/a.." \notin DOMAIN files
    /\ CacheHas(disk_cache, CacheKey("http://a", 0))
    /\ lru_misses >= 1
    /\ timer_due > CLEANUP_INTERVAL

\* The passes the loop of read makes for [offset, offset + size).
Iterations(offset, size) ==
    IF size > 0
    THEN (offset + size - 1) \div BLOCK_SIZE - offset \div BLOCK_SIZE + 1
    ELSE 1

\* curr_start after the passes recorded in calls
Advanced(r) ==
    LET RECURSIVE Sum(_)
        Sum(i) == IF i = 0 THEN 0
                  ELSE r.calls[i].to - r.calls[i].from + Sum(i - 1)
    IN  r.offset + Sum(Len(r.calls))

\* C18: the loop of read makes exactly Iterations(offset, size) passes and
\* then stops, whatever the blocks hold: it goes on while fewer passes are
\* made and no longer; with size > 0 each pass moves curr_start forward by
\* at least 1 and at most BLOCK_SIZE.
C18_LoopTerminates ==
    \A t \in Threads :
        LET r == th[t]
            n == Iterations(r.offset, r.size)
        IN  (r.op = "read" /\ r.err # "EIO") =>
                /\ Len(r.calls) <= n
                /\ r.pc = "loop" => (LoopTest(r) <=> Len(r.calls) < n)
                /\ r.pc = "fetch" => Len(r.calls) < n
                /\ r.pc = "done" => Len(r.calls) = n
                /\ r.pc \in {"loop", "done"} => r.curr_start = Advanced(r)
                /\ r.size > 0 =>
                     \A i \in 1..Len(r.calls) :
                         /\ r.calls[i].to - r.calls[i].from >= 1
                         /\ r.calls[i].to - r.calls[i].from <= BLOCK_SIZE

\* The read of 2 bytes at offset 1 of "/b.." (2 bytes long) has stopped
\* after two passes, the second on an empty block.
C18_Witness ==
    \E t \in Threads :
        LET r == th[t]
        IN  /\ ReadDone(r) /\ r.err = "" /\ r.path = "/b.."
            /\ r.offset = 1 /\ r.size = 2
            /\ Len(r.calls) = 2
            /\ r.block_data = << >>
            /\ r.curr_start = 3

\* C19: a read of a known path returns size bytes; the byte for position
\* pos of the resource, at index pos - offset, is the byte at pos of the
\* block get_block returned for it, and 0 where that block ends before pos.
C19_ReadReturnsSizeBytes ==
    \A t \in Threads :
        LET r == th[t]
        IN  (ReadDone(r) /\ r.err = "") =>
                /\ Len(r.output) = r.size
                /\ \A i \in 1..r.size :
                     LET pos == r.offset + i - 1
                         j == pos \div BLOCK_SIZE
                                - r.offset \div BLOCK_SIZE + 1
                         k == pos % BLOCK_SIZE
                     IN  /\ j \in 1..Len(r.blocks)
                         /\ r.output[i] =
                              IF k < Len(r.blocks[j])
                              THEN r.blocks[j][k + 1] ELSE 0

\* The read of 2 bytes at offset 1 of "/b.." (2 bytes long) has returned
\* the last byte of the resource and a zero for the position past its end.
C19_Witness ==
    \E t \in Threads :
        LET r == th[t]
        IN  /\ ReadDone(r) /\ r.err = "" /\ r.path = "/b.."
            /\ r.offset = 1 /\ r.size = 2
            /\ r.blocks = << << OriginByte("http://b", 0),
                                OriginByte("http://b", 1) >>, << >> >>
            /\ r.output = << OriginByte("http://b", 1), 0 >>

\* C20: an LRUCache never holds more than capacity keys (each once); a
\* __setitem__ of a key that is present gives it the new value and keeps
\* every other key and value, full or not; __contains__ and a __getitem__
\* of a missing key leave the OrderedDict, order included, as it is.
C20_LruBoundedAndStable ==
    [][Len(lru_log') = Len(lru_log) + 1 =>
        LET e == lru_log'[Len(lru_log')]
        IN  /\ Len(lru_cache') <= capacity
            /\ Cardinality(LruKeysOf(lru_cache')) = Len(lru_cache')
            /\ (e.name = "set" /\ LruHas(lru_cache, e.key)) =>
                 /\ LruKeysOf(lru_cache') = LruKeysOf(lru_cache)
                 /\ LruValue(lru_cache', e.key) = e.value
                 /\ \A o \in LruKeysOf(lru_cache) \ {e.key} :
                      LruValue(lru_cache', o) = LruValue(lru_cache, o)
            /\ e.name \in {"get", "contains"} =>
                 e.ok = LruHas(lru_cache, e.key)
            /\ (e.name = "contains" \/ (e.name = "get" /\ ~e.ok)) =>
                 lru_cache' = lru_cache
      ]_vars

\* k1 and k2 fill the cache; the set of k1 to a new value has kept k2,
\* and a __getitem__ of the missing k3 has then changed nothing.
C20_Witness ==
    /\ Len(lru_cache) = capacity
    /\ Len(lru_log) = 4
    /\ lru_log[1] = Logged("set", "k1", "u", TRUE)
    /\ lru_log[2] = Logged("set", "k2", "u", TRUE)
    /\ lru_log[3] = Logged("set", "k1", "v", TRUE)
    /\ lru_log[4] = Logged("get", "k3", "", FALSE)
    /\ lru_cache = << [key |-> "k2", value |-> "u"],
                      [key |-> "k1", value |-> "v"] >>

====
